---- MODULE Spec2Model ----
(***************************************************************************)
(* A state-machine model of src/src/reynir/reynir.py: the _Job /           *)
(* _Paragraph / _Sentence parsing pipeline of Greynir, its statistics and  *)
(* progress reporting, the cached views of a sentence and dump()/load().   *)
(*                                                                         *)
(* Python values are modelled as follows.                                  *)
(*   - None is the empty tuple and any other optional value v is <<v>>.    *)
(*   - An object is the record of its instance __dict__: an attribute that *)
(*     was never assigned is not in the record's DOMAIN, and reading it    *)
(*     raises AttributeError.                                              *)
(*   - A float that is a ratio of two integers (a progress value) is the   *)
(*     pair <<numerator, denominator>>, compared by cross multiplication.  *)
(*   - The float num ** (1 / slen) is a fixed-point number with Scale      *)
(*     units per 1.0, rounded down.                                        *)
(*   - An exception leaving a function is the string naming its class.     *)
(***************************************************************************)
EXTENDS Integers, Sequences, FiniteSets, Bags, TLC

\* ------------------------------------------------------------- bounds ----
\* Longest sentence, in tokens.
MaxLen == 2
\* Most sentences the token stream segments into.
MaxSents == 2
\* Largest number of combinations the grammar engine reports for a forest.
MaxComb == 2
\* Most generator objects obtained from job.sentences().
MaxIters == 2
\* Most calls of _Job.parse (the cap of the job's _num_sent counter).
MaxProcessed == 2
\* Most Sentence objects a job hands out: one more than a single pass over
\* the stream yields.
MaxObjects == MaxSents + 1
MaxThreads == 2
MaxOps == 2
MaxSeqOps == 4
MaxDur == 2
MaxTimed == 2
DEFAULT_MAX_SENT_TOKENS == 90
\* Units per 1.0 of the fixed-point numbers standing for floats.
Scale == 100

\* ------------------------------------------------------ python values ----
None == <<>>
Some(v) == <<v>>
Val(o) == o[1]
HasAttr(o, a) == a \in DOMAIN o

\* a / b < c / d for positive denominators.
RatLess(x, y) == x[1] * y[2] < y[1] * x[2]
RatEq(x, y) == x[1] * y[2] = y[1] * x[2]
RatOne == <<1, 1>>

RECURSIVE Pow(_, _)
Pow(b, e) == IF e = 0 THEN 1 ELSE b * Pow(b, e - 1)

RECURSIVE SumSeq(_)
SumSeq(s) == IF s = <<>> THEN 0 ELSE Head(s) + SumSeq(Tail(s))

RECURSIVE Concat(_)
Concat(ss) == IF ss = <<>> THEN <<>> ELSE Head(ss) \o Concat(Tail(ss))

\* --------------------------------------------------- tokens and input ----
\* The surface text of the j-th token of a sentence.
TokTxt == <<"a", "b", "c", "d">>

\* A token (kind, txt, val). A word the lexicon recognises carries its
\* meaning (lemma and category) in val; an unrecognised word carries none.
Tok(j, known) ==
    [kind |-> "WORD", txt |-> TokTxt[j],
     val |-> IF known THEN Some([lemma |-> TokTxt[j], cat |-> "no"]) ELSE None]

\* The token list of one sentence: n tokens, all recognised or none.
TokenList(n, known) == [j \in 1..n |-> Tok(j, known)]

TokenLists == { TokenList(n, known) : n \in 1..MaxLen, known \in BOOLEAN }

\* tokenizer.paragraphs(): the segmentation of a token stream, a sequence of
\* non-empty paragraphs, each a sequence of sentence token lists.
OnePerParagraph(flat) == [k \in 1..Len(flat) |-> <<flat[k]>>]

\* bintokenizer.tokens_are_foreign(): the ratio of recognised words is below
\* the threshold. A token list of the model has ratio 0 or 1.
TokensAreForeign(tokens) == \A j \in 1..Len(tokens) : tokens[j].val = None

\* ------------------------------------------------- external engines ----
\* fastparser.ParseError(message, token_index=None).
ParseError(msg, token_index) == [msg |-> msg, token_index |-> token_index]

\* The scores the reduction engine may give the tree it selects.
ReducerScores == {5}

\* What Fast_Parser.go(tokens, root) followed by the reducer can do with a
\* token list. The grammar engine raises ParseError without a token index or
\* with the index of a token (here the first), returns no forest, or returns
\* a forest of 1..MaxComb combinations;
\* the reduction engine, if it is called, returns a tree and a score.
EngineOutcomes(tokens) ==
    { [kind |-> "error", token_index |-> ti] :
        ti \in {None, Some(0)} }
      \cup { [kind |-> "none"] }
      \cup { [kind |-> "forest", num |-> n, score |-> sc] :
               n \in 1..MaxComb, sc \in ReducerScores }

\* The forest Fast_Parser.go() returns, and the tree Reducer.go_with_score()
\* selects from it.
Forest(tokens, root, n) ==
    [tokens |-> tokens, root |-> root, num |-> n, reduced |-> FALSE]
Reduce(forest) == [forest EXCEPT !.reduced = TRUE]

\* ------------------------------------------------------- simple tree ----
\* The serialisable head of a SimpleTree: the root nonterminal, below it one
\* phrase nonterminal, below that one terminal per token.
TerminalHead(tok, ix) ==
    [k |-> "T", x |-> tok.txt,
     s |-> IF tok.val = None THEN tok.txt ELSE Val(tok.val).lemma,
     t |-> IF tok.val = None THEN "entity" ELSE Val(tok.val).cat,
     c |-> IF tok.val = None THEN "entity" ELSE "kk",
     ix |-> ix, p |-> <<>>]

\* SimpleTree.from_deep_tree(tree, tokens).
FromDeepTree(tree, tokens) ==
    [_head |->
       [k |-> "NT", x |-> IF tree.root = None THEN "S0" ELSE Val(tree.root),
        p |-> << [k |-> "NT", x |-> "P",
                  p |-> [j \in 1..Len(tokens) |-> TerminalHead(tokens[j], j - 1)]] >>]]

\* SimpleTree([[head]]): a tree built directly from a persisted head.
SimpleTreeOf(head) == [_head |-> head]

\* SimpleTree.descendants: every node below the root, in left-to-right order.
RECURSIVE Below(_)
Below(node) ==
    Concat([j \in 1..Len(node.p) |-> <<node.p[j]>> \o Below(node.p[j])])
Descendants(tree) == Below(tree._head)
IsTerminal(node) == node.k = "T"

\* ---------------------------------------------------------------- job ----
\* _Job.__init__: the counters of a new job.
JobInit ==
    [_cnt_sent |-> 0, _num_sent |-> 0, _num_parsed |-> 0, _num_tokens |-> 0,
     _num_combinations |-> 0, _total_ambig |-> 0, _total_tokens |-> 0]

\* num ** (1 // slen): the exponent taken by integer division, which is 0
\* for every sentence longer than one token.
AmbigFactorFloorDiv(num, slen) == IF slen = 1 THEN Scale * num ELSE Scale

\* num ** (1 / slen), in fixed point, rounded down.
AmbigFactor(num, slen) ==
    CHOOSE r \in Scale..(Scale * num) :
        /\ Pow(r, slen) <= num * Pow(Scale, slen)
        /\ Pow(r + 1, slen) > num * Pow(Scale, slen)

\* _add_sentence with the token count moved under "if num > 0".
AddStatisticsParsedOnly(j, slen, num) ==
    LET seen == [j EXCEPT !._num_sent = @ + 1]
    IN  IF num > 0
        THEN [seen EXCEPT !._num_parsed = @ + 1,
                          !._num_tokens = @ + slen,
                          !._num_combinations = @ + num,
                          !._total_ambig = @ + AmbigFactor(num, slen) * slen,
                          !._total_tokens = @ + slen]
        ELSE seen

\* _Job._add_sentence, the statistics part: the counters after a sentence of
\* slen tokens with num combinations.
AddStatistics(j, slen, num) ==
    LET seen == [j EXCEPT !._num_sent = @ + 1, !._num_tokens = @ + slen]
    IN  IF num > 0
        THEN [seen EXCEPT !._num_parsed = @ + 1,
                          !._num_combinations = @ + num,
                          !._total_ambig = @ + AmbigFactor(num, slen) * slen,
                          !._total_tokens = @ + slen]
        ELSE seen

\* The two assertions of _add_sentence that guard the progress call.
ProgressAsserts(j) == j._cnt_sent > 0 /\ (j._num_sent + 1) <= j._cnt_sent

\* The progress value without the + 1.
ProgressValueProcessed(j) == <<j._num_sent, j._cnt_sent>>

\* The value _add_sentence passes to the progress function.
ProgressValue(j) == <<j._num_sent + 1, j._cnt_sent>>

\* _Job._add_sentence(s, num, ...): the job afterwards, the values passed to
\* the progress function, and the exception raised, if any.
AddSentence(j, c, slen, num) ==
    LET j1 == AddStatistics(j, slen, num)
    IN  IF ~c.progress
        THEN [job |-> j1, cb |-> <<>>, raised |-> None]
        ELSE IF ProgressAsserts(j1)
        THEN [job |-> j1, cb |-> <<ProgressValue(j1)>>, raised |-> None]
        ELSE [job |-> j1, cb |-> <<>>, raised |-> Some("AssertionError")]

\* The length check with >= for >.
TooLongInclusive(c, tokens) ==
    c.max_sent_tokens # 0 /\ Len(tokens) >= c.max_sent_tokens

\* The length check of _Job.parse.
TooLong(c, tokens) == c.max_sent_tokens # 0 /\ Len(tokens) > c.max_sent_tokens

\* The foreign-sentence check of _Job.parse.
SkipForeign(c, tokens) == ~c.parse_foreign /\ TokensAreForeign(tokens)

\* The try block with the foreign-sentence check before the length check.
ParseAttemptForeignFirst(c, tokens, eng) ==
    LET fail(e, classified, go) ==
            [raised |-> Some("ParseError"), error |-> Some(e), forest |-> None,
             num |-> 0, score |-> 0, classified |-> classified, go |-> go,
             reduce |-> FALSE]
    IN  IF SkipForeign(c, tokens)
        THEN fail(ParseError("Sentence is probably not in Icelandic", Some(0)),
                  TRUE, FALSE)
        ELSE IF TooLong(c, tokens)
        THEN fail(ParseError("Sentence is longer than max_sent_tokens tokens",
                             Some(c.max_sent_tokens)), TRUE, FALSE)
        ELSE IF eng.kind = "error"
        THEN fail(ParseError("No parse available", eng.token_index),
                  ~c.parse_foreign, TRUE)
        ELSE IF eng.kind = "none"
        THEN [raised |-> None, error |-> None, forest |-> None, num |-> 0,
              score |-> 0, classified |-> ~c.parse_foreign, go |-> TRUE,
              reduce |-> FALSE]
        ELSE LET forest == Forest(tokens, c.root, eng.num)
             IN  IF eng.num > 1
                 THEN [raised |-> None, error |-> None,
                       forest |-> Some(Reduce(forest)), num |-> eng.num,
                       score |-> eng.score, classified |-> ~c.parse_foreign,
                       go |-> TRUE, reduce |-> TRUE]
                 ELSE [raised |-> None, error |-> None, forest |-> Some(forest),
                       num |-> eng.num, score |-> 0,
                       classified |-> ~c.parse_foreign, go |-> TRUE,
                       reduce |-> FALSE]

\* The try block of _Job.parse: what it returns or raises for the engine
\* outcome eng, and which collaborators it called.
ParseAttempt(c, tokens, eng) ==
    LET fail(e, classified, go) ==
            [raised |-> Some("ParseError"), error |-> Some(e), forest |-> None,
             num |-> 0, score |-> 0, classified |-> classified, go |-> go,
             reduce |-> FALSE]
    IN  IF TooLong(c, tokens)
        THEN fail(ParseError("Sentence is longer than max_sent_tokens tokens",
                             Some(c.max_sent_tokens)), FALSE, FALSE)
        ELSE IF SkipForeign(c, tokens)
        THEN fail(ParseError("Sentence is probably not in Icelandic", Some(0)),
                  TRUE, FALSE)
        ELSE IF eng.kind = "error"
        THEN fail(ParseError("No parse available", eng.token_index),
                  ~c.parse_foreign, TRUE)
        ELSE IF eng.kind = "none"
        THEN [raised |-> None, error |-> None, forest |-> None, num |-> 0,
              score |-> 0, classified |-> ~c.parse_foreign, go |-> TRUE,
              reduce |-> FALSE]
        ELSE LET forest == Forest(tokens, c.root, eng.num)
             IN  IF eng.num > 1
                 THEN [raised |-> None, error |-> None,
                       forest |-> Some(Reduce(forest)), num |-> eng.num,
                       score |-> eng.score, classified |-> ~c.parse_foreign,
                       go |-> TRUE, reduce |-> TRUE]
                 ELSE [raised |-> None, error |-> None, forest |-> Some(forest),
                       num |-> eng.num, score |-> 0,
                       classified |-> ~c.parse_foreign, go |-> TRUE,
                       reduce |-> FALSE]

\* _Job.parse(tokens): the try block, then the finally block, whose
\* _add_sentence call sees the num the try block reached and whose exception,
\* if it raises one, replaces the result of the try block.
JobParse(j, c, tokens, eng) ==
    LET a == ParseAttempt(c, tokens, eng)
        f == AddSentence(j, c, Len(tokens), a.num)
    IN  [a EXCEPT !.raised = IF f.raised # None THEN f.raised ELSE @]
          @@ [job |-> f.job, cb |-> f.cb]

\* ----------------------------------------------------------- sentence ----
\* _Sentence.__init__(job, s), before the immediate parse.
SentenceNew(tokens) ==
    [_job |-> Some("job"), _s |-> tokens, _len |-> Len(tokens),
     _err_index |-> None, _error |-> None, _tree |-> None,
     _simplified_tree |-> None, _num |-> None, _score |-> None,
     _terminals |-> None]

\* The first test of _Sentence.parse never taken.
AlreadyParsedNever(s) == FALSE

\* The first test of _Sentence.parse: the sentence is in a terminal state.
AlreadyParsed(s) == s._num # None

\* The error index _Sentence.parse records for a ParseError.
ErrIndex(s, e) ==
    IF e.token_index = None THEN Some(s._len - 1) ELSE e.token_index

BoolStr(b) == IF b THEN "True" ELSE "False"

\* What a call reports when it called no collaborator: the values passed to
\* the progress function (cb); whether _Job.parse ran (fresh) and then the
\* tokens it was given, the num it handed to _add_sentence, what its try
\* block raised (attempt), what the call raised in the end (jobraised) and
\* the token index of its ParseError (jobindex); whether the language
\* classifier, the grammar engine and the reduction engine were called; and
\* by how much the call moved the job's counters.
Quiet ==
    [cb |-> <<>>, fresh |-> FALSE, tokens |-> <<>>, num |-> 0,
     attempt |-> "None", jobraised |-> "None", jobindex |-> None,
     classified |-> FALSE, go |-> FALSE, reduce |-> FALSE,
     added_sent |-> 0, added_parsed |-> 0, added_tokens |-> 0]

\* The part of a call's result that is its outcome, not the objects.
Report(r) == [x \in (DOMAIN Quiet \cup {"ret"}) \ {"fresh"} |-> r[x]]

\* _Sentence.parse(): the sentence and the job afterwards, what the call
\* returned or raised (ret), and what it called on the way.
SentenceParse(s, j, c, eng) ==
    IF AlreadyParsed(s)
    THEN Quiet @@ [sent |-> s, job |-> j, ret |-> BoolStr(Val(s._num) > 0)]
    ELSE LET a == ParseAttempt(c, s._s, eng)
             r == JobParse(j, c, s._s, eng)
             called == [cb |-> r.cb, fresh |-> TRUE, tokens |-> s._s,
                        num |-> r.num,
                        attempt |-> IF a.raised = None THEN "None" ELSE Val(a.raised),
                        jobraised |-> IF r.raised = None THEN "None" ELSE Val(r.raised),
                        jobindex |-> IF r.error = None THEN None
                                     ELSE Val(r.error).token_index,
                        classified |-> r.classified, go |-> r.go,
                        reduce |-> r.reduce,
                        added_sent |-> r.job._num_sent - j._num_sent,
                        added_parsed |-> r.job._num_parsed - j._num_parsed,
                        added_tokens |-> r.job._num_tokens - j._num_tokens]
         IN  IF r.raised = Some("AssertionError")
             THEN called @@ [sent |-> s, job |-> r.job, ret |-> "AssertionError"]
             ELSE LET s1 == IF r.raised = Some("ParseError")
                            THEN [s EXCEPT !._err_index = ErrIndex(s, Val(r.error)),
                                           !._error = r.error]
                            ELSE s
                      s2 == [s1 EXCEPT
                               !._tree = r.forest,
                               !._simplified_tree =
                                   IF r.forest = None THEN None
                                   ELSE Some(FromDeepTree(Val(r.forest), s._s)),
                               !._num = Some(r.num),
                               !._score = Some(r.score)]
                  IN  called @@ [sent |-> s2, job |-> r.job,
                                 ret |-> BoolStr(r.num > 0)]

\* _Sentence(job, s) parsing at once whatever the job says.
CreateSentenceEager(tokens, j, c, eng) ==
    SentenceParse(SentenceNew(tokens), j, c, eng)

\* _Job._create_sentence -> Greynir.create_sentence -> _Sentence(job, s):
\* the constructor parses at once in a job created with parse=True.
CreateSentence(tokens, j, c, eng) ==
    IF c.parse
    THEN SentenceParse(SentenceNew(tokens), j, c, eng)
    ELSE Quiet @@ [sent |-> SentenceNew(tokens), job |-> j, ret |-> "None"]

\* -------------------------------------------------- views of a sentence ----
\* _Sentence.tree.
Tree(s) == s._simplified_tree

\* _Sentence.text: the token texts joined by spaces (a sequence of texts).
Text(s) == [j \in 1..Len(s._s) |-> s._s[j].txt]

\* _Sentence.terminal_nodes, a cached_property: the value already stored in
\* the instance __dict__, or else the terminal nodes of the tree, and no
\* nodes at all while there is no tree.
TerminalNodes(s) ==
    IF HasAttr(s, "terminal_nodes") THEN s.terminal_nodes
    ELSE IF Tree(s) = None THEN <<>>
    ELSE SelectSeq(Descendants(Val(Tree(s))), IsTerminal)

\* The sentence after terminal_nodes was read: the value is stored.
CacheTerminalNodes(s) ==
    IF HasAttr(s, "terminal_nodes") THEN s
    ELSE s @@ [terminal_nodes |-> TerminalNodes(s)]

\* Terminal(d.text, d.lemma, d.tcat, d.all_variants, d.index).
Terminal(d) ==
    [text |-> d.x, lemma |-> d.s, category |-> d.t, variants |-> <<>>,
     index |-> d.ix]

\* terminals without its first test, "if self.tree is None: return None".
TerminalsUnguarded(s) ==
    IF s._terminals # None THEN s._terminals
    ELSE LET nodes == TerminalNodes(s)
         IN  Some([k \in 1..Len(nodes) |-> Terminal(nodes[k])])

\* _Sentence.terminals: None without a tree, else the cached list, else the
\* list made from terminal_nodes.
Terminals(s) ==
    IF Tree(s) = None THEN None
    ELSE IF s._terminals # None THEN s._terminals
    ELSE LET nodes == TerminalNodes(s)
         IN  Some([k \in 1..Len(nodes) |-> Terminal(nodes[k])])

\* _Sentence.lemmas.
Lemmas(s) ==
    LET ts == Terminals(s)
    IN  IF ts = None THEN None
        ELSE Some([k \in 1..Len(Val(ts)) |-> Val(ts)[k].lemma])

\* _Sentence.categories.
Categories(s) ==
    IF Tree(s) = None THEN None
    ELSE LET nodes == TerminalNodes(s)
         IN  Some([k \in 1..Len(nodes) |-> nodes[k].c])

\* _Sentence.lemmas_and_cats: (d.lemma, d.lemma_cat) of the terminal nodes.
LemmasAndCats(s) ==
    IF Tree(s) = None THEN None
    ELSE LET nodes == TerminalNodes(s)
         IN  Some([k \in 1..Len(nodes) |-> <<nodes[k].s, nodes[k].c>>])

\* SimpleTree.ifd_tags of a node: a tag for a terminal, none for a
\* nonterminal.
NodeIfdTags(node) == IF IsTerminal(node) THEN <<node.t>> ELSE <<>>

\* _Sentence.ifd_tags: the tags of the descendants of the tree, flattened.
IfdTags(s) ==
    IF Tree(s) = None THEN None
    ELSE LET ds == Descendants(Val(Tree(s)))
         IN  Some(Concat([k \in 1..Len(ds) |-> NodeIfdTags(ds[k])]))

\* _Sentence.__len__: the attribute _len of the instance, AttributeError
\* when the instance has none.
SentenceLen(s) ==
    IF HasAttr(s, "_len") THEN [value |-> Some(s._len), raised |-> None]
    ELSE [value |-> None, raised |-> Some("AttributeError")]

\* Greynir._dump_token: tuple(tok), and Greynir._load_token: Tok(*load_token(*t)).
DumpToken(tok) == <<tok.kind, tok.txt, tok.val>>
LoadToken(t) == [kind |-> t[1], txt |-> t[2], val |-> t[3]]

\* _Sentence.dump.
Dump(s) ==
    [tokens |-> [j \in 1..Len(s._s) |-> DumpToken(s._s[j])],
     tree |-> IF Tree(s) = None THEN None ELSE Some(Val(Tree(s))._head)]

\* load() building the instance through _Sentence.__init__ with the job at
\* hand, instead of through __new__ and a fresh __dict__.
LoadByConstructor(tokens, tree) ==
    [SentenceNew([j \in 1..Len(tokens) |-> LoadToken(tokens[j])]) EXCEPT
       !._simplified_tree = IF tree = None THEN None
                            ELSE Some(SimpleTreeOf(Val(tree)))]

\* _Sentence.load(greynir_cls, tokens, tree): the __dict__ of the instance.
Load(tokens, tree) ==
    [_s |-> [j \in 1..Len(tokens) |-> LoadToken(tokens[j])],
     len |-> Len(tokens),
     _simplified_tree |-> IF tree = None THEN None ELSE Some(SimpleTreeOf(Val(tree))),
     _terminals |-> None, _job |-> None, _err_index |-> None, _error |-> None,
     _score |-> None]

\* ----------------------------------------------------- engine registry ----
\* The class attributes Greynir._parser, Greynir._reducer and Greynir._lock
\* (0 when the lock is free, else the thread that holds it).
RegInit == [_parser |-> None, _reducer |-> None, _lock |-> 0]

\* What the engine classes were asked to do so far: the numbers of parsers
\* and reducers constructed, of grammars loaded, of discard_grammar() and
\* parser.cleanup() calls and of acquisitions of the lock; the grammar that
\* Fast_Parser holds; and the (parser, reducer) pairs that finished job
\* constructions hold.
EngInit ==
    [parsers |-> 0, reducers |-> 0, grammars |-> 0, grammar |-> None,
     discards |-> 0, cleanups |-> 0, locks |-> 0, held |-> {}]

\* Fast_Parser(): a new parser on the grammar the class holds, loaded when
\* the class holds none.
FastParser(e) ==
    LET g == IF e.grammar = None THEN e.grammars + 1 ELSE Val(e.grammar)
    IN  [inst |-> [id |-> e.parsers + 1, grammar |-> g],
         eng |-> [e EXCEPT !.parsers = @ + 1, !.grammar = Some(g),
                           !.grammars = IF e.grammar = None THEN @ + 1 ELSE @]]

\* Reducer(grammar): a new reducer bound to the grammar.
ReducerNew(e, grammar) ==
    [inst |-> [id |-> e.reducers + 1, grammar |-> grammar],
     eng |-> [e EXCEPT !.reducers = @ + 1]]

\* Fast_Parser.discard_grammar().
DiscardGrammar(e) == [e EXCEPT !.discards = @ + 1, !.grammar = None]

\* parser.cleanup().
ParserCleanup(e) == [e EXCEPT !.cleanups = @ + 1]

\* A thread between operations, allowed to start budget operations; n counts
\* the operations it started and cleanups the cleanup() calls among them.
ThreadInit(budget) ==
    [pc |-> "idle", op |-> "none", prev |-> "none", n |-> 0, cleanups |-> 0,
     budget |-> budget,
     parser |-> None, reducer |-> None, raised |-> None, locked |-> FALSE,
     pre |-> [reg |-> RegInit, eng |-> EngInit]]

\* The thread th starts the operation op, "acquire" (the first two
\* statements of _Job.__init__) or "cleanup" (Greynir.cleanup()); pre is
\* the registry it starts from.
StartOp(th, op, r, e) ==
    [th EXCEPT !.pc = IF op = "acquire" THEN "p_lock" ELSE "c_reducer",
               !.op = op, !.prev = th.op, !.n = @ + 1,
               !.cleanups = IF op = "cleanup" THEN @ + 1 ELSE @,
               !.parser = None, !.reducer = None, !.raised = None,
               !.locked = FALSE, !.pre = [reg |-> r, eng |-> e]]

\* The test of the parser property with TRUE for "is None".
NeedsInitAlways(r) == TRUE

\* The test of the parser property: no parser is held.
NeedsInit(r) == r._parser = None

\* The test of cleanup() with TRUE for "is not None".
CleanupDiscardsAlways(r) == TRUE

\* The test of cleanup(): a parser is held.
CleanupDiscards(r) == r._parser # None

\* A thread can take its next step unless it waits for the lock.
CanStep(m) ==
    /\ m.th.pc \notin {"idle", "done"}
    /\ m.th.pc = "p_lock" => m.reg._lock = 0

\* One step of thread t in an operation: a statement of the parser
\* property, of the reducer property or of cleanup(), on the registry
\* m.reg. An exception ends the operation, and releases the lock when it
\* leaves the with block.
Step(t, m) ==
    LET th == m.th
        r == m.reg
        e == m.eng
        raise(x) == [th EXCEPT !.pc = "done", !.raised = Some(x)]
    IN  CASE th.pc = "p_lock" ->
                 [reg |-> [r EXCEPT !._lock = t],
                  eng |-> [e EXCEPT !.locks = @ + 1],
                  th |-> [th EXCEPT !.pc = "p_check", !.locked = TRUE]]
          [] th.pc = "p_check" ->
                 [m EXCEPT !.th.pc = IF NeedsInit(r) THEN "p_parser"
                                     ELSE "p_return"]
          [] th.pc = "p_parser" ->
                 LET made == FastParser(e)
                 IN  [reg |-> [r EXCEPT !._parser = Some(made.inst)],
                      eng |-> made.eng,
                      th |-> [th EXCEPT !.pc = "p_reducer"]]
          [] th.pc = "p_reducer" ->
                 IF r._parser = None
                 THEN [reg |-> [r EXCEPT !._lock = 0], eng |-> e,
                       th |-> raise("AttributeError")]
                 ELSE LET made == ReducerNew(e, Val(r._parser).grammar)
                      IN  [reg |-> [r EXCEPT !._reducer = Some(made.inst)],
                           eng |-> made.eng,
                           th |-> [th EXCEPT !.pc = "p_return"]]
          [] th.pc = "p_return" ->
                 [reg |-> [r EXCEPT !._lock = 0], eng |-> e,
                  th |-> [th EXCEPT !.pc = "r_assert", !.parser = r._parser]]
          [] th.pc = "r_assert" ->
                 IF r._reducer = None
                 THEN [m EXCEPT !.th = raise("AssertionError")]
                 ELSE [m EXCEPT !.th.pc = "r_return"]
          [] th.pc = "r_return" ->
                 [reg |-> r,
                  eng |-> [e EXCEPT !.held = @ \cup
                               {[parser |-> th.parser, reducer |-> r._reducer]}],
                  th |-> [th EXCEPT !.pc = "done", !.reducer = r._reducer]]
          [] th.pc = "c_reducer" ->
                 [reg |-> [r EXCEPT !._reducer = None], eng |-> e,
                  th |-> [th EXCEPT !.pc = "c_check"]]
          [] th.pc = "c_check" ->
                 [m EXCEPT !.th.pc = IF CleanupDiscards(r) THEN "c_discard"
                                     ELSE "done"]
          [] th.pc = "c_discard" ->
                 [reg |-> r, eng |-> DiscardGrammar(e),
                  th |-> [th EXCEPT !.pc = "c_cleanup"]]
          [] th.pc = "c_cleanup" ->
                 IF r._parser = None
                 THEN [m EXCEPT !.th = raise("AttributeError")]
                 ELSE [reg |-> r, eng |-> ParserCleanup(e),
                       th |-> [th EXCEPT !.pc = "c_clear"]]
          [] th.pc = "c_clear" ->
                 [reg |-> [r EXCEPT !._parser = None], eng |-> e,
                  th |-> [th EXCEPT !.pc = "done"]]

\* An operation run by thread t from its start to its end with no other
\* thread in between.
RECURSIVE Run(_, _)
Run(t, m) == IF CanStep(m) THEN Run(t, Step(t, m)) ELSE m

\* ------------------------------------------------------------- timing ----
\* _Job.__init__: self._parse_time = 0.0 and self._reduce_time = 0.0; n is
\* the number of timed calls of _Job.parse and last the latest of them.
TimingInit == [_parse_time |-> 0, _reduce_time |-> 0, n |-> 0, last |-> None]

\* -------------------------------------------------------------- state ----
VARIABLES
    cfg,        \* the arguments the job was constructed with
    stream,     \* the segmentation of the job's token stream
    src_pos,    \* paragraphs already drawn from a single-pass token stream
    job,        \* the counters of the _Job
    iters,      \* the generators obtained from job.sentences()
    sents,      \* the _Sentence objects the job has yielded
    progress,   \* the values passed to the progress function, in order
    calls,      \* the calls of _Job.parse so far: a bag of their reports
    first,      \* per Sentence object: how the first parse() call on it ended
    last,       \* the latest operation, if it was a parse() call on a Sentence
                \* that parse() had been called on before: its report
    loaded,     \* the latest object made by load() from a dump(), and of what
    reg,        \* the class attributes of Greynir: _parser, _reducer, _lock
    engines,    \* what the engine classes were asked to do so far
    threads,    \* per thread: the operation on the registry it is in
    np,         \* the latest construction of a _Job_NP, if any
    clock,      \* time.time()
    timing      \* the job's _parse_time and _reduce_time, and the latest addition

vars ==
    <<cfg, stream, src_pos, job, iters, sents, progress, calls, first, last,
      loaded, reg, engines, threads, np, clock, timing>>

\* The registry, its threads and the noun-phrase construction.
registry == <<reg, engines, threads, np>>

\* The clock and the time accumulators of the job.
timevars == <<clock, timing>>

Configs ==
    [parse : BOOLEAN, progress : BOOLEAN, restartable : BOOLEAN,
     parse_foreign : BOOLEAN, max_sent_tokens : 0..(MaxLen - 1), root : {None}]

\* A stream of n sentences, the k-th of k tokens (at most MaxLen), all words
\* recognised, in one paragraph or in a paragraph each.
PlainText(n) == [k \in 1..n |-> TokenList(IF k < MaxLen THEN k ELSE MaxLen, TRUE)]
PlainStreams ==
    { <<>> } \cup UNION { { <<PlainText(n)>>, OnePerParagraph(PlainText(n)) } :
                          n \in 1..MaxSents }

\* A stream of one paragraph: any one sentence, alone or followed by plain
\* sentences.
MixedStreams ==
    { << <<first_s>> \o PlainText(n) >> : first_s \in TokenLists, n \in 0..(MaxSents - 1) }

\* The jobs the model explores: every combination of parse, progress_func
\* and the kind of token stream over plain text, with no sentence rejected
\* before the grammar engine; and every combination of parse, progress_func,
\* max_sent_tokens and parse_foreign_sentences over the single-pass token
\* stream that Greynir.tokenize() returns, holding any sentence first.
Inputs ==
    { in \in [cfg : Configs, stream : PlainStreams] :
        in.cfg.max_sent_tokens = 0 /\ in.cfg.parse_foreign }
      \cup { in \in [cfg : Configs, stream : MixedStreams] : ~in.cfg.restartable }

Init ==
    /\ \E in \in Inputs : cfg = in.cfg /\ stream = in.stream
    /\ src_pos = 0
    /\ job = JobInit
    /\ iters = <<>>
    /\ sents = <<>>
    /\ progress = <<>>
    /\ calls = EmptyBag
    /\ first = <<>>
    /\ last = None
    /\ loaded = None
    /\ reg = RegInit
    /\ engines = EngInit
    /\ threads = <<>>
    /\ np = None
    /\ clock = 0
    /\ timing = TimingInit

\* ---------------------------------------------------------- iteration ----
\* A generator of job.sentences() reads the paragraphs np..hi of the stream
\* (own), or whatever a single-pass stream has left (shared); p is the
\* paragraph it is in and k the sentences it has taken from it.
\*
\* The start of _Job.paragraphs(): with a progress function the whole stream
\* is segmented into a list, the sentences are counted and the progress
\* function gets its first call; without one the segmentation stays lazy. A
\* restartable stream (a list of tokens) is read from its start by every
\* generator, a single-pass stream (a generator of tokens) from where the
\* last reader left it.
StartParagraphs(c, j, st, pos) ==
    IF c.progress
    THEN LET lo == IF c.restartable THEN 1 ELSE pos + 1
             cnt == SumSeq([q \in 1..(Len(st) + 1 - lo) |-> Len(st[lo + q - 1])]) + 1
         IN  [it |-> [own |-> TRUE, np |-> lo, hi |-> Len(st), p |-> 0, k |-> 0,
                      done |-> FALSE],
              job |-> [j EXCEPT !._cnt_sent = cnt],
              cb |-> << <<1, cnt>> >>,
              pos |-> IF c.restartable THEN pos ELSE Len(st)]
    ELSE [it |-> [own |-> c.restartable, np |-> 1, hi |-> Len(st), p |-> 0,
                  k |-> 0, done |-> FALSE],
          job |-> j, cb |-> <<>>, pos |-> pos]

\* The loops of _Job.sentences() and _Paragraph.sentences(): the next token
\* list to wrap, drawn from the current paragraph or from the next one; stop
\* is TRUE when the stream has no further paragraph.
Pull(it, st, pos) ==
    IF it.p > 0 /\ it.k < Len(st[it.p])
    THEN [stop |-> FALSE, tokens |-> st[it.p][it.k + 1],
          it |-> [it EXCEPT !.k = @ + 1], pos |-> pos]
    ELSE IF it.own /\ it.np <= it.hi
    THEN [stop |-> FALSE, tokens |-> st[it.np][1],
          it |-> [it EXCEPT !.p = it.np, !.k = 1, !.np = @ + 1], pos |-> pos]
    ELSE IF ~it.own /\ pos < Len(st)
    THEN [stop |-> FALSE, tokens |-> st[pos + 1][1],
          it |-> [it EXCEPT !.p = pos + 1, !.k = 1], pos |-> pos + 1]
    ELSE [stop |-> TRUE, tokens |-> <<>>, it |-> [it EXCEPT !.done = TRUE],
          pos |-> pos]

\* The bag of _Job.parse calls after the call r reports, made for Sentence
\* object number i (0 when the object was never handed out).
Log(bag, r, i) ==
    IF r.fresh THEN bag (+) SetToBag({ Report(r) @@ [sent |-> i] }) ELSE bag

\* How the first parse() call on a Sentence ended: what it returned, or
\* the exception it raised. A Sentence that was only constructed has none.
FirstOutcome(f, r) ==
    IF f = None /\ r.ret # "None" THEN Some(r.ret) ELSE f

\* next() on generator number g of job.sentences(): a new generator runs
\* from the start of _Job.paragraphs(), a suspended one resumes. The call
\* yields the next Sentence, or ends in StopIteration, or the constructor
\* of the Sentence lets an exception escape, which ends the generator.
NextSentence(g) ==
    /\ g \in 1..(Len(iters) + 1)
    /\ g <= MaxIters
    /\ g <= Len(iters) => ~iters[g].done
    /\ Len(sents) < MaxObjects
    /\ cfg.parse => job._num_sent < MaxProcessed
    /\ UNCHANGED <<cfg, stream, loaded, registry, timevars>>
    /\ last' = None
    /\ \E start \in { IF g = Len(iters) + 1
                      THEN StartParagraphs(cfg, job, stream, src_pos)
                      ELSE [it |-> iters[g], job |-> job, cb |-> <<>>,
                            pos |-> src_pos] } :
       \E pull \in { Pull(start.it, stream, start.pos) } :
         LET put(it) == IF g = Len(iters) + 1 THEN Append(iters, it)
                        ELSE [iters EXCEPT ![g] = it]
         IN  IF pull.stop
             THEN /\ iters' = put(pull.it)
                  /\ src_pos' = pull.pos
                  /\ job' = start.job
                  /\ progress' = progress \o start.cb
                  /\ UNCHANGED <<sents, calls, first>>
             ELSE \E eng \in EngineOutcomes(pull.tokens) :
                  \E r \in { CreateSentence(pull.tokens, start.job, cfg, eng) } :
                  LET escaped == r.ret = "AssertionError"
                  IN  /\ iters' = put(IF escaped THEN [pull.it EXCEPT !.done = TRUE]
                                      ELSE pull.it)
                      /\ src_pos' = pull.pos
                      /\ job' = r.job
                      /\ progress' = progress \o start.cb \o r.cb
                      /\ calls' = Log(calls, r, IF escaped THEN 0 ELSE Len(sents) + 1)
                      /\ sents' = IF escaped THEN sents ELSE Append(sents, r.sent)
                      /\ first' = IF escaped THEN first
                                  ELSE Append(first, FirstOutcome(None, r))

\* sentence.parse() called by the user on Sentence object number i.
Parse(i) ==
    /\ i \in 1..Len(sents)
    /\ ~AlreadyParsed(sents[i]) => job._num_sent < MaxProcessed
    /\ \E eng \in EngineOutcomes(sents[i]._s) :
       \E r \in { SentenceParse(sents[i], job, cfg, eng) } :
         /\ sents' = [sents EXCEPT ![i] = r.sent]
         /\ job' = r.job
         /\ progress' = progress \o r.cb
         /\ calls' = Log(calls, r, i)
         /\ first' = [first EXCEPT ![i] = FirstOutcome(@, r)]
         /\ last' = IF first[i] = None THEN None
                    ELSE Some([sent |-> i, ret |-> r.ret, go |-> r.go])
         /\ UNCHANGED <<cfg, stream, src_pos, iters, loaded, registry, timevars>>

Next ==
    \/ \E g \in 1..MaxIters : NextSentence(g)
    \/ \E i \in 1..MaxObjects : Parse(i)

Spec == Init /\ [][Next]_vars

\* ------------------------------------------- views and serialisation ----
\* sentence.terminal_nodes read by the user on Sentence object number i.
ReadTerminalNodes(i) ==
    /\ i \in 1..Len(sents)
    /\ sents' = [sents EXCEPT ![i] = CacheTerminalNodes(@)]
    /\ last' = None
    /\ UNCHANGED <<cfg, stream, src_pos, job, iters, progress, calls, first,
                   loaded, registry, timevars>>

\* load() applied to the tokens and the tree of dump() of Sentence object
\* number i.
DumpLoad(i) ==
    /\ i \in 1..Len(sents)
    /\ \E d \in { Dump(sents[i]) } :
         loaded' = Some([from |-> i, obj |-> Load(d.tokens, d.tree)])
    /\ last' = None
    /\ UNCHANGED <<cfg, stream, src_pos, job, iters, sents, progress, calls,
                   first, registry, timevars>>

\* The jobs whose sentences are read and serialised: those that
\* parse_single() and submit() make of a text of one sentence, without a
\* progress function.
InitViews ==
    /\ Init
    /\ ~cfg.progress /\ ~cfg.restartable
    /\ Len(stream) = 1 /\ Len(stream[1]) = 1

NextViews ==
    \/ \E g \in 1..MaxIters : NextSentence(g)
    \/ \E i \in 1..MaxObjects : Parse(i)
    \/ \E i \in 1..MaxObjects : ReadTerminalNodes(i)
    \/ \E i \in 1..MaxObjects : DumpLoad(i)

SpecViews == InitViews /\ [][NextViews]_vars

\* ------------------------------------------------- registry in threads ----
\* The variables of the job, which the operations on the registry leave
\* alone.
jobvars ==
    <<cfg, stream, src_pos, job, iters, sents, progress, calls, first, last,
      loaded>>

\* Thread t starts to construct a _Job (op "acquire") or calls
\* Greynir.cleanup() (op "cleanup").
Begin(t, op) ==
    /\ t \in DOMAIN threads
    /\ threads[t].pc \in {"idle", "done"}
    /\ threads[t].n < threads[t].budget
    /\ threads' = [threads EXCEPT ![t] = StartOp(@, op, reg, engines)]
    /\ UNCHANGED <<jobvars, reg, engines, np, timevars>>

\* Thread t executes the next statement of its operation.
ThreadStep(t) ==
    /\ t \in DOMAIN threads
    /\ \E m \in { [reg |-> reg, eng |-> engines, th |-> threads[t]] } :
         /\ CanStep(m)
         /\ \E m2 \in { Step(t, m) } :
              /\ reg' = m2.reg
              /\ engines' = m2.eng
              /\ threads' = [threads EXCEPT ![t] = m2.th]
    /\ UNCHANGED <<jobvars, np, timevars>>

\* A process that has made a Greynir() with default options and no job yet.
InitRegistryJob ==
    /\ cfg = [parse |-> FALSE, progress |-> FALSE, restartable |-> FALSE,
              parse_foreign |-> FALSE,
              max_sent_tokens |-> DEFAULT_MAX_SENT_TOKENS, root |-> None]
    /\ stream = <<>>
    /\ src_pos = 0
    /\ job = JobInit
    /\ iters = <<>>
    /\ sents = <<>>
    /\ progress = <<>>
    /\ calls = EmptyBag
    /\ first = <<>>
    /\ last = None
    /\ loaded = None
    /\ reg = RegInit
    /\ engines = EngInit
    /\ np = None
    /\ clock = 0
    /\ timing = TimingInit

\* MaxThreads threads, each constructing jobs and calling cleanup().
InitRegistry ==
    /\ InitRegistryJob
    /\ threads = [t \in 1..MaxThreads |-> ThreadInit(MaxOps)]

\* One thread constructing jobs and calling cleanup().
InitRegistrySeq ==
    /\ InitRegistryJob
    /\ threads = <<ThreadInit(MaxSeqOps)>>

NextRegistry ==
    \/ \E t \in 1..MaxThreads : Begin(t, "acquire")
    \/ \E t \in 1..MaxThreads : Begin(t, "cleanup")
    \/ \E t \in 1..MaxThreads : ThreadStep(t)

SpecRegistry == InitRegistry /\ [][NextRegistry]_vars

SpecRegistrySeq == InitRegistrySeq /\ [][NextRegistry]_vars

\* --------------------------------------------------- noun-phrase jobs ----
\* The values of force_number the model passes: none, the empty string, the
\* four number restrictions and a string that is none of them.
ForceNumbers ==
    {None} \cup { Some(x) : x \in {"", "et", "singular", "ft", "plural", "tvt"} }

\* "if force_number:" - a string is true unless it is empty, None is false.
Truthy(fn) == fn # None /\ Val(fn) # ""

\* The root that _Job_NP.__init__ selects for force_number, or the exception
\* it raises before it calls _Job.__init__.
SelectRoot(fn) ==
    IF Truthy(fn)
    THEN IF Val(fn) \in {"et", "singular"}
         THEN [root |-> Some("Nl_et"), raised |-> None]
         ELSE IF Val(fn) \in {"ft", "plural"}
         THEN [root |-> Some("Nl_ft"), raised |-> None]
         ELSE [root |-> None, raised |-> Some("ValueError")]
    ELSE [root |-> Some("Nl"), raised |-> None]

\* _Job_NP(greynir, tokens, force_number = fn): the root is selected, then
\* _Job.__init__ acquires the parser and the reducer and stores parse = True,
\* the root and the default max_sent_tokens. The tokens are not read.
ConstructNP(fn) ==
    /\ np = None
    /\ \E sel \in { SelectRoot(fn) } :
         IF sel.raised # None
         THEN /\ np' = Some([fn |-> fn, raised |-> sel.raised, parser |-> None,
                             reducer |-> None])
              /\ UNCHANGED <<cfg, reg, engines>>
         ELSE \E m \in { Run(1, [reg |-> reg, eng |-> engines,
                                 th |-> StartOp(ThreadInit(1), "acquire",
                                                reg, engines)]) } :
              /\ reg' = m.reg
              /\ engines' = m.eng
              /\ cfg' = [cfg EXCEPT !.parse = TRUE, !.root = sel.root,
                                    !.progress = FALSE,
                                    !.max_sent_tokens = DEFAULT_MAX_SENT_TOKENS]
              /\ np' = Some([fn |-> fn, raised |-> m.th.raised,
                             parser |-> m.th.parser, reducer |-> m.th.reducer])
    /\ UNCHANGED <<stream, src_pos, job, iters, sents, progress, calls, first,
                   last, loaded, threads, timevars>>

\* A _Job_NP was constructed.
BuiltNP == np # None /\ Val(np).raised = None

\* The state in Greynir.parse_noun_phrase after tokenize(): a single-pass
\* token stream, no job yet, no engines held.
InitNP ==
    /\ \E pf \in BOOLEAN :
         cfg = [parse |-> FALSE, progress |-> FALSE, restartable |-> FALSE,
                parse_foreign |-> pf, max_sent_tokens |-> 0, root |-> None]
    /\ stream \in MixedStreams
    /\ src_pos = 0
    /\ job = JobInit
    /\ iters = <<>>
    /\ sents = <<>>
    /\ progress = <<>>
    /\ calls = EmptyBag
    /\ first = <<>>
    /\ last = None
    /\ loaded = None
    /\ reg = RegInit
    /\ engines = EngInit
    /\ threads = <<>>
    /\ np = None
    /\ clock = 0
    /\ timing = TimingInit

NextNP ==
    \/ \E fn \in ForceNumbers : ConstructNP(fn)
    \/ \E g \in 1..MaxIters : BuiltNP /\ NextSentence(g)

SpecNP == InitNP /\ [][NextNP]_vars

\* ------------------------------------------------------ timed parsing ----
\* _Job.parse(tokens) on the clock: t0 = t1 = time.time() at the start, the
\* grammar engine takes d_go and the reduction engine d_red when they are
\* called, t1 is read again when parser.go has returned, and the finally
\* block adds now - t0 to _parse_time and now - t1 to _reduce_time.
JobParseTimed(tokens, eng, d_go, d_red) ==
    /\ timing.n < MaxTimed
    /\ \E a \in { ParseAttempt(cfg, tokens, eng) } :
       \E f \in { AddSentence(job, cfg, Len(tokens), a.num) } :
         LET t0 == clock
             returned == clock + (IF a.go THEN d_go ELSE 0)
             t1 == IF a.go /\ eng.kind # "error" THEN returned ELSE t0
             now == returned + (IF a.reduce THEN d_red ELSE 0)
         IN  /\ clock' = now
             /\ job' = f.job
             /\ timing' =
                    [_parse_time |-> timing._parse_time + (now - t0),
                     _reduce_time |-> timing._reduce_time + (now - t1),
                     n |-> timing.n + 1,
                     last |-> Some([raised |-> a.raised, go |-> a.go,
                                    reduce |-> a.reduce,
                                    parse_time |-> now - t0,
                                    reduce_time |-> now - t1,
                                    after_go |-> now - returned])]
    /\ UNCHANGED <<cfg, stream, src_pos, iters, sents, progress, calls, first,
                   last, loaded, registry>>

\* A job without a progress function, before its first sentence.
InitTime ==
    /\ cfg \in { c \in Configs : ~c.progress /\ ~c.restartable /\ c.parse }
    /\ stream = <<>>
    /\ src_pos = 0
    /\ job = JobInit
    /\ iters = <<>>
    /\ sents = <<>>
    /\ progress = <<>>
    /\ calls = EmptyBag
    /\ first = <<>>
    /\ last = None
    /\ loaded = None
    /\ reg = RegInit
    /\ engines = EngInit
    /\ threads = <<>>
    /\ np = None
    /\ clock = 0
    /\ timing = TimingInit

NextTime ==
    \E tokens \in TokenLists : \E eng \in EngineOutcomes(tokens) :
    \E d_go \in 1..MaxDur : \E d_red \in 1..MaxDur :
        JobParseTimed(tokens, eng, d_go, d_red)

SpecTime == InitTime /\ [][NextTime]_vars

\* ------------------------------------------------------------ properties ----
\* _Job.ambiguity, as a ratio.
Ambiguity(j) ==
    IF j._total_tokens > 0 THEN <<j._total_ambig, Scale * j._total_tokens>>
    ELSE RatOne

\* The number of sentences the token stream segments into.
NumSentences == Len(Concat(stream))

\* The sum of f[r] over the reports r of a bag, with multiplicity.
RECURSIVE SumBag(_, _)
SumBag(B, f) ==
    IF DOMAIN B = {} THEN 0
    ELSE LET r == CHOOSE x \in DOMAIN B : TRUE
         IN  B[r] * f[r] + SumBag([x \in DOMAIN B \ {r} |-> B[x]], f)

\* C1: a parse() call on a Sentence that parse() was called on before does
\* not invoke the grammar engine and returns the boolean that the first call
\* returned.
C1_SecondParseSameVerdict ==
    last # None =>
        /\ ~Val(last).go
        /\ Val(last).ret \in {"True", "False"}
        /\ Val(last).ret = Val(first[Val(last).sent])

\* C2: in every state the job's counters are the sums over the calls of
\* _Job.parse so far: num_sentences their number, num_tokens the sum of the
\* lengths of their token lists, num_combinations the sum of the combination
\* counts of those that parsed, num_parsed the number of those with a
\* combination count above 0, which is at most num_sentences.
C2_StatisticsConsistent ==
    /\ job._num_sent = SumBag(calls, [r \in DOMAIN calls |-> 1])
    /\ job._num_tokens = SumBag(calls, [r \in DOMAIN calls |-> Len(r.tokens)])
    /\ job._num_combinations =
           SumBag(calls, [r \in DOMAIN calls |-> IF r.num > 0 THEN r.num ELSE 0])
    /\ job._num_parsed =
           SumBag(calls, [r \in DOMAIN calls |-> IF r.num > 0 THEN 1 ELSE 0])
    /\ job._num_parsed <= job._num_sent

\* Two sentences were processed, one that failed and one that parsed with
\* more than one combination, and a generator of the job has not reached
\* the end of the stream.
C2_Witness ==
    /\ job._num_sent = 2
    /\ \E r \in DOMAIN calls : r.num = 0
    /\ \E r \in DOMAIN calls : r.num > 1
    /\ \E g \in 1..Len(iters) : ~iters[g].done

\* C3: the values passed to the progress function, in the order of the
\* calls, are strictly increasing.
C3_ProgressIncreasing ==
    \A k \in 1..(Len(progress) - 1) : RatLess(progress[k], progress[k + 1])

\* C4: in a job with a progress function that has begun to iterate, once as
\* many sentences were processed as the stream holds, the last value passed
\* to the progress function is 1.0.
C4_FinalProgressOne ==
    (cfg.progress /\ iters # <<>> /\ job._num_sent >= NumSentences) =>
        RatEq(progress[Len(progress)], RatOne)

\* C5: every call of _Job.parse on a token list one longer than a non-zero
\* max_sent_tokens M raises ParseError with token index M without calling
\* the grammar engine, and the Sentence has err_index M.
C5_TooLongFails ==
    \A r \in DOMAIN calls :
        (cfg.max_sent_tokens # 0 /\ Len(r.tokens) = cfg.max_sent_tokens + 1) =>
            /\ r.jobraised = "ParseError"
            /\ r.jobindex = Some(cfg.max_sent_tokens)
            /\ ~r.go
            /\ r.sent # 0
            /\ sents[r.sent]._err_index = Some(cfg.max_sent_tokens)

\* C6: with parse_foreign_sentences off, parse() on a foreign sentence
\* within the length threshold returns False and leaves err_index 0, the
\* grammar engine is not called, num_sentences grows by one and num_parsed
\* stays.
C6_ForeignFails ==
    \A r \in DOMAIN calls :
        (~TooLong(cfg, r.tokens) /\ SkipForeign(cfg, r.tokens)) =>
            /\ r.ret = "False"
            /\ ~r.go
            /\ r.sent # 0
            /\ sents[r.sent]._err_index = Some(0)
            /\ r.added_sent = 1
            /\ r.added_parsed = 0

\* C7: when the try block of _Job.parse raises ParseError (too long,
\* foreign, or no parse), parse() returns False and the iteration hands the
\* Sentence out; the sentence is added to num_sentences and num_tokens and
\* not to num_parsed; and a progress function is called exactly once.
C7_FailureContained ==
    \A r \in DOMAIN calls :
        r.attempt = "ParseError" =>
            /\ r.ret = "False"
            /\ r.sent # 0
            /\ r.added_sent = 1
            /\ r.added_tokens = Len(r.tokens)
            /\ r.added_parsed = 0
            /\ cfg.progress => Len(r.cb) = 1

\* C8, as the specification states it: ambiguity is at least 1.0, and is
\* 1.0 exactly when num_parsed is 0.
C8_OneIffNoneParsed ==
    /\ ~RatLess(Ambiguity(job), RatOne)
    /\ RatEq(Ambiguity(job), RatOne) <=> job._num_parsed = 0

\* C8, amended: ambiguity is at least 1.0, and is 1.0 exactly when no
\* processed sentence has more than one combination.
C8_OneIffUnambiguous ==
    /\ ~RatLess(Ambiguity(job), RatOne)
    /\ RatEq(Ambiguity(job), RatOne) <=> \A r \in DOMAIN calls : r.num <= 1

\* A sentence has parsed, with one combination, and the ambiguity is 1.0.
C8_Witness ==
    /\ job._num_parsed > 0
    /\ RatEq(Ambiguity(job), RatOne)

\* C9: an object loaded from the dump of a successfully parsed Sentence has
\* the terminals, lemmas, categories and text of that Sentence.
C9_RoundTrip ==
    loaded # None =>
        LET l == Val(loaded).obj
            o == sents[Val(loaded).from]
        IN  Tree(l) # None =>
                /\ Terminals(l) = Terminals(o)
                /\ Lemmas(l) = Lemmas(o)
                /\ Categories(l) = Categories(o)
                /\ Text(l) = Text(o)

\* C10: an object loaded from the dump of a Sentence, whatever the state of
\* the Sentence, has no error, no err_index and no job.
C10_LoadedDetached ==
    loaded # None =>
        /\ Val(loaded).obj._error = None
        /\ Val(loaded).obj._err_index = None
        /\ Val(loaded).obj._job = None

\* An object was loaded from the dump of a Sentence that holds an error.
C10_Witness ==
    /\ loaded # None
    /\ sents[Val(loaded).from]._error # None

\* C12: a Sentence whose parse() returned False holds a recorded error and
\* a recorded error index.
C12_FailureRecorded ==
    \A i \in 1..Len(sents) :
        sents[i]._num = Some(0) =>
            /\ sents[i]._error # None
            /\ sents[i]._err_index # None

\* C13: once parse() has returned, the Sentence has a tree exactly when
\* parse() returned True, which is exactly when its combination count is
\* above 0; after a failure the tree, terminals, lemmas, categories,
\* lemmas_and_cats and ifd_tags are all None.
C13_TreeIffParsed ==
    \A i \in 1..Len(sents) :
        AlreadyParsed(sents[i]) =>
            /\ Tree(sents[i]) # None <=> first[i] = Some("True")
            /\ Tree(sents[i]) # None <=> Val(sents[i]._num) > 0
            /\ Val(sents[i]._num) = 0 =>
                   /\ Tree(sents[i]) = None
                   /\ Terminals(sents[i]) = None
                   /\ Lemmas(sents[i]) = None
                   /\ Categories(sents[i]) = None
                   /\ LemmasAndCats(sents[i]) = None
                   /\ IfdTags(sents[i]) = None

\* A Sentence failed to parse and its terminal_nodes were read.
C13_Witness ==
    \E i \in 1..Len(sents) :
        /\ sents[i]._num = Some(0)
        /\ HasAttr(sents[i], "terminal_nodes")

\* C14: when the grammar engine raised ParseError on a sentence of L tokens,
\* the Sentence's err_index is the token index the engine reported, and is
\* L - 1 when the engine reported none.
C14_ErrIndexFromEngine ==
    \A r \in DOMAIN calls :
        (r.go /\ r.attempt = "ParseError") =>
            /\ r.sent # 0
            /\ sents[r.sent]._err_index =
                   IF r.jobindex = None THEN Some(Len(r.tokens) - 1)
                   ELSE r.jobindex

\* C18: with max_sent_tokens 0 no call of _Job.parse rejects a sentence for
\* its length, and with a threshold M above 0 a sentence of at most M tokens
\* is not rejected for its length: the call goes on to the foreign-sentence
\* check or to the grammar engine, and the Sentence's error is not the
\* length error.
C18_NoLengthRejection ==
    \A r \in DOMAIN calls :
        (cfg.max_sent_tokens = 0 \/ Len(r.tokens) <= cfg.max_sent_tokens) =>
            /\ ~(r.attempt = "ParseError" /\ ~r.go /\ ~r.classified)
            /\ (r.sent # 0 /\ sents[r.sent]._error # None) =>
                   Val(sents[r.sent]._error).msg #
                       "Sentence is longer than max_sent_tokens tokens"

\* A sentence of exactly M tokens, M above 0, reached the grammar engine.
C18_Witness ==
    \E r \in DOMAIN calls :
        /\ cfg.max_sent_tokens # 0
        /\ Len(r.tokens) = cfg.max_sent_tokens
        /\ r.go

\* C19: in a job with a progress function over a stream of N sentences, the
\* first call of the progress function has the value 1 / (N + 1) and is made
\* when the whole stream is segmented and counted, while no Sentence was
\* yielded and no call of _Job.parse was made; and the call made for the
\* k-th processed sentence has the value (k + 1) / (N + 1).
C19_ProgressValues ==
    [][ /\ (progress = <<>> /\ progress' # <<>>) =>
              /\ progress'[1] = <<1, NumSentences + 1>>
              /\ job'._cnt_sent = NumSentences + 1
              /\ ~cfg.restartable => src_pos' = Len(stream)
              /\ sents = <<>>
              /\ calls = EmptyBag
        /\ \A r \in DOMAIN calls' :
              (CopiesIn(r, calls') > CopiesIn(r, calls) /\ r.cb # <<>>) =>
                  /\ Len(r.cb) = 1
                  /\ progress'[Len(progress')] = r.cb[1]
                  /\ RatEq(r.cb[1], <<job'._num_sent + 1, NumSentences + 1>>)
      ]_vars

\* The progress function was called for the second processed sentence.
C19_Witness ==
    /\ cfg.progress
    /\ job._num_sent = 2
    /\ Len(progress) = 3
    /\ \E r \in DOMAIN calls : r.cb # <<>> /\ r.cb[1] = progress[3]

\* C20: every value passed to the progress function lies in 0..1, and no
\* call of _Job.parse ends in an AssertionError of _add_sentence, whatever
\* the sequence of iterations and parse() calls.
C20_AssertionsHold ==
    /\ \A k \in 1..Len(progress) :
           /\ progress[k][1] >= 0
           /\ progress[k][1] <= progress[k][2]
    /\ \A r \in DOMAIN calls : r.jobraised # "AssertionError"

\* No thread has called cleanup().
NoCleanup == \A t \in DOMAIN threads : threads[t].cleanups = 0

\* C15: while threads construct jobs concurrently and none has called
\* cleanup(), at most one parser and one reducer are constructed, no
\* acquisition raises, and every finished job construction holds parser 1
\* and reducer 1, the reducer bound to the grammar of the parser.
C15_EnginesConstructedOnce ==
    NoCleanup =>
        /\ engines.parsers <= 1
        /\ engines.reducers <= 1
        /\ \A t \in DOMAIN threads : threads[t].raised = None
        /\ \A h \in engines.held :
               /\ engines.parsers = 1
               /\ engines.reducers = 1
               /\ h.parser # None
               /\ h.reducer # None
               /\ h.parser = reg._parser
               /\ h.reducer = reg._reducer
               /\ Val(h.reducer).grammar = Val(h.parser).grammar

\* Two threads that both began before any parser existed have finished
\* their job constructions, with no cleanup().
C15_Witness ==
    /\ NoCleanup
    /\ Len(threads) >= 2
    /\ \A t \in {1, 2} :
           /\ threads[t].pc = "done"
           /\ threads[t].n = 1
           /\ threads[t].op = "acquire"
           /\ threads[t].pre.reg._parser = None
           /\ threads[t].reducer # None

\* C16: a job construction that begins when the parser and the reducer are
\* held obtains them without acquiring the lock.
C16_SteadyStateLockFree ==
    \A t \in DOMAIN threads :
        ( /\ threads[t].op = "acquire"
          /\ threads[t].pre.reg._parser # None
          /\ threads[t].pre.reg._reducer # None ) =>
            ~threads[t].locked

\* C17: with one thread, cleanup() never raises and leaves the registry
\* empty; called when no parser is held it invokes neither discard_grammar()
\* nor parser.cleanup(); called right after a cleanup() it changes nothing;
\* and a job construction right after a cleanup() constructs a parser and a
\* reducer that did not exist before.
C17_CleanupIdempotent ==
    \A t \in DOMAIN threads :
        LET th == threads[t]
        IN  /\ th.op = "cleanup" => th.raised = None
            /\ (th.op = "cleanup" /\ th.pc = "done") =>
                   /\ reg._parser = None
                   /\ reg._reducer = None
                   /\ th.pre.reg._parser = None =>
                          /\ engines.discards = th.pre.eng.discards
                          /\ engines.cleanups = th.pre.eng.cleanups
                   /\ th.prev = "cleanup" =>
                          /\ reg = th.pre.reg
                          /\ engines = th.pre.eng
            /\ (th.op = "acquire" /\ th.prev = "cleanup" /\ th.pc = "done") =>
                   /\ th.raised = None
                   /\ th.parser # None
                   /\ th.reducer # None
                   /\ Val(th.parser).id > th.pre.eng.parsers
                   /\ Val(th.reducer).id > th.pre.eng.reducers
                   /\ engines.parsers = th.pre.eng.parsers + 1
                   /\ engines.reducers = th.pre.eng.reducers + 1

\* Engines were constructed and discarded, cleanup() was called again at
\* once, and the job constructed after that holds the second parser.
C17_Witness ==
    \E t \in DOMAIN threads :
        /\ threads[t].n = 4
        /\ threads[t].op = "acquire"
        /\ threads[t].prev = "cleanup"
        /\ threads[t].cleanups = 2
        /\ threads[t].pc = "done"
        /\ engines.discards = 1
        /\ threads[t].parser # None
        /\ Val(threads[t].parser).id = 2

\* C11: the construction of a _Job_NP selects root "Nl" for no
\* force_number, "Nl_et" for "et" and "singular", "Nl_ft" for "ft" and
\* "plural", and for every other force_number raises an error with no engine
\* acquired, no token read and no sentence parsed.
C11_RootSelection ==
    np # None =>
        /\ Val(np).fn = None =>
               Val(np).raised = None /\ cfg.root = Some("Nl")
        /\ Val(np).fn \in {Some("et"), Some("singular")} =>
               Val(np).raised = None /\ cfg.root = Some("Nl_et")
        /\ Val(np).fn \in {Some("ft"), Some("plural")} =>
               Val(np).raised = None /\ cfg.root = Some("Nl_ft")
        /\ Val(np).fn \notin {None, Some("et"), Some("singular"), Some("ft"),
                              Some("plural")} =>
               /\ Val(np).raised # None
               /\ reg = RegInit
               /\ engines = EngInit
               /\ src_pos = 0
               /\ iters = <<>>
               /\ sents = <<>>
               /\ calls = EmptyBag

\* C21: in every call of _Job.parse the reduction engine is called exactly
\* when the grammar engine returned a forest of more than one combination;
\* for a forest of exactly one combination the Sentence holds the forest as
\* the grammar engine returned it and score 0; and when the call raised
\* ParseError the reduction engine is not called and the Sentence holds
\* score 0.
C21_ReduceIffAmbiguous ==
    \A r \in DOMAIN calls :
        /\ r.reduce <=> (r.go /\ r.attempt = "None" /\ r.num > 1)
        /\ r.num = 1 =>
               /\ r.sent # 0
               /\ sents[r.sent]._tree = Some(Forest(r.tokens, cfg.root, 1))
               /\ sents[r.sent]._score = Some(0)
        /\ r.attempt = "ParseError" =>
               /\ ~r.reduce
               /\ r.sent # 0
               /\ sents[r.sent]._score = Some(0)

\* C22: _Job.parse applies the length check, then the foreign-sentence
\* check, then the grammar engine: a sentence longer than a non-zero
\* max_sent_tokens M that is also foreign fails on the ParseError with token
\* index M, the classifier is asked only about sentences within the length
\* threshold, and the grammar engine is called only for sentences that
\* passed both checks.
C22_ChecksInOrder ==
    \A r \in DOMAIN calls :
        LET long == cfg.max_sent_tokens # 0 /\ Len(r.tokens) > cfg.max_sent_tokens
            foreign == ~cfg.parse_foreign /\ TokensAreForeign(r.tokens)
        IN  /\ (long /\ foreign) =>
                   /\ r.attempt = "ParseError"
                   /\ r.jobindex = Some(cfg.max_sent_tokens)
                   /\ r.jobindex # Some(0)
                   /\ ~r.classified
                   /\ ~r.go
            /\ r.classified => ~long
            /\ r.go => (~long /\ ~foreign)

\* A foreign sentence longer than the threshold was submitted with
\* parse_foreign_sentences off.
C22_Witness ==
    \E r \in DOMAIN calls :
        /\ cfg.max_sent_tokens # 0
        /\ Len(r.tokens) > cfg.max_sent_tokens
        /\ ~cfg.parse_foreign
        /\ TokensAreForeign(r.tokens)
        /\ r.jobindex = Some(cfg.max_sent_tokens)

\* C23: a parse() call on a Sentence that holds a combination count leaves
\* every counter of the job and every attribute of the Sentence as they
\* were, makes no call of _Job.parse and none of the progress function.
C23_TerminalParseNoEffect ==
    [][ \A i \in 1..Len(sents) :
            (sents[i]._num # None /\ Parse(i)) =>
                /\ job' = job
                /\ sents' = sents
                /\ progress' = progress
                /\ calls' = calls
      ]_vars

\* parse() was called on a Sentence in a terminal state, in a job with a
\* progress function that has processed sentences.
C23_Witness ==
    /\ last # None
    /\ sents[Val(last).sent]._num # None
    /\ cfg.progress
    /\ job._num_sent > 0

\* The counters of a job that its properties report: all but the pre-counted
\* total of the progress function.
Counters(j) == [j EXCEPT !._cnt_sent = 0]

\* C24: in a job created with parse=False a step that yields a Sentence
\* leaves the new Sentence without a combination count, makes no call of
\* _Job.parse and changes no counter, and the counters change only in a
\* parse() call on a Sentence; in a job created with parse=True every
\* Sentence yielded holds a combination count and was counted in
\* num_sentences when it was yielded.
C24_LazyAndEagerJobs ==
    [][ /\ ~cfg.parse =>
              /\ Len(sents') > Len(sents) =>
                     /\ sents'[Len(sents')]._num = None
                     /\ calls' = calls
                     /\ Counters(job') = Counters(job)
              /\ Counters(job') # Counters(job) => \E i \in 1..Len(sents) : Parse(i)
        /\ cfg.parse =>
              /\ \A i \in 1..Len(sents') :
                     /\ sents'[i]._num # None
                     /\ \E r \in DOMAIN calls' : r.sent = i
              /\ Len(sents') > Len(sents) => job'._num_sent = job._num_sent + 1
              /\ job'._num_sent >= Len(sents')
      ]_vars

\* A job created with parse=False has yielded two Sentences, and parse() was
\* called on the first only.
C24_Witness ==
    /\ ~cfg.parse
    /\ Len(sents) = 2
    /\ sents[1]._num # None
    /\ sents[2]._num = None
    /\ job._num_sent = 1

\* C25: while threads construct jobs and call cleanup() in any interleaving,
\* no job construction fails on the assertion of the reducer property, and
\* every finished job construction holds a parser and a reducer, the reducer
\* bound to the grammar of that parser.
C25_JobsHoldEngines ==
    /\ \A t \in DOMAIN threads :
           threads[t].op = "acquire" => threads[t].raised # Some("AssertionError")
    /\ \A h \in engines.held :
           /\ h.parser # None
           /\ h.reducer # None
           /\ Val(h.reducer).grammar = Val(h.parser).grammar

\* The terminal nodes of the simplified tree of a parsed Sentence, from left
\* to right.
TreeTerminals(s) == SelectSeq(Descendants(Val(Tree(s))), IsTerminal)

\* C26: a successfully parsed Sentence has in terminals, lemmas and
\* categories one entry for each terminal node of its simplified tree, in
\* the order of the tree, whatever was read from it before it was parsed.
C26_OneEntryPerTerminal ==
    \A i \in 1..Len(sents) :
        (sents[i]._num # None /\ Val(sents[i]._num) > 0) =>
            LET nodes == TreeTerminals(sents[i])
            IN  /\ Terminals(sents[i]) =
                       Some([k \in 1..Len(nodes) |-> Terminal(nodes[k])])
                /\ Lemmas(sents[i]) = Some([k \in 1..Len(nodes) |-> nodes[k].s])
                /\ Categories(sents[i]) =
                       Some([k \in 1..Len(nodes) |-> nodes[k].c])

\* C27: len() of a Sentence made by load() from n token records is defined,
\* is n, and is len() of the Sentence that was dumped.
C27_LoadedLength ==
    loaded # None =>
        LET l == Val(loaded).obj
            o == sents[Val(loaded).from]
        IN  /\ SentenceLen(l).raised = None
            /\ SentenceLen(l).value = Some(Len(Dump(o).tokens))
            /\ SentenceLen(l).value = SentenceLen(o).value

\* C28: what a call of _Job.parse adds to _reduce_time is the time that
\* passed after the grammar engine call returned, a call that raised
\* ParseError adds nothing to it, and _reduce_time is at most _parse_time.
C28_ReduceTimeAfterEngine ==
    /\ timing.last # None =>
           /\ Val(timing.last).reduce_time = Val(timing.last).after_go
           /\ Val(timing.last).raised # None => Val(timing.last).reduce_time = 0
    /\ timing._reduce_time <= timing._parse_time

====
